---- MODULE Spec2Model ----
(***************************************************************************)
(* Model of joint_dependency/simulation.py: a world of one-degree-of-      *)
(* freedom joints, the controllers that drive them, the Locker and         *)
(* MultiLocker constraints that couple them, and the ActionMachine that    *)
(* runs goals and probes mobility.                                         *)
(*                                                                         *)
(* Reals are fixed-point integers in units of 1/S (S = 100), so 0.01, 0.5, *)
(* 0.1 and every bound of the source is an exact integer.  Products with   *)
(* dt are truncated towards zero to that unit and the square root of       *)
(* Joint.step is the integer square root: these two roundings are the only *)
(* places where the arithmetic differs from the source's floats.           *)
(***************************************************************************)
EXTENDS Integers, Sequences, FiniteSets, TLC

\* ------------------------------------------------------------------ bounds
\* fixed-point unit: a stored integer x stands for the real x / S
S == 10 * 10
\* World.step calls in one run
MaxTicks == 21
\* commands the caller issues in one run (move_to, apply_force, run_action,
\* check_state)
MaxCmds == 2
\* World.step calls the caller makes itself, outside the ActionMachine
MaxSteps == 2
\* World.step calls in which a PositionController reads a sensor value that
\* is off
MaxNoisy == 1

\* ------------------------------------------------------- numeric helpers
Abs(x) == IF x < 0 THEN -x ELSE x
Min(a, b) == IF a < b THEN a ELSE b
Max(a, b) == IF a > b THEN a ELSE b

\* x * dt in fixed point, rounded towards zero
Scaled(x, dt) == IF x * dt >= 0 THEN (x * dt) \div S ELSE -((-(x * dt)) \div S)

RECURSIVE SqrtSearch(_, _, _)
SqrtSearch(n, lo, hi) ==
    IF lo >= hi THEN lo
    ELSE LET mid == (lo + hi + 1) \div 2
         IN IF mid * mid <= n THEN SqrtSearch(n, mid, hi)
                              ELSE SqrtSearch(n, lo, mid - 1)

\* np.sqrt of a fixed-point square n (units 1/S^2) known to be at most hi^2,
\* in units 1/S, rounded down
Sqrt(n, hi) == SqrtSearch(n, 0, hi)

\* ------------------------------------------------------ module functions
\* mutant: a position on a threshold is put in the zone below it
RECURSIVE get_state_from_le(_, _, _)
get_state_from_le(x, states, i) ==
    IF i > Len(states) THEN Len(states)
    ELSE IF x <= states[i] THEN i - 1
    ELSE get_state_from_le(x, states, i + 1)

\* for i, k in enumerate(states): if q < k: return i; return i + 1, from the
\* i-th threshold on
RECURSIVE get_state_from(_, _, _)
get_state_from(x, states, i) ==
    IF i > Len(states) THEN Len(states)
    ELSE IF x < states[i] THEN i - 1
    ELSE get_state_from(x, states, i + 1)

\* zone index, 0-based as in the source
get_state(x, states) == get_state_from(x, states, 1)

sgn(x) == IF x < 0 THEN -1 ELSE 1


\* ------------------------------------------------------------------ state
VARIABLES
    world,         \* the World and what hangs on it (see Init)
    listeners,     \* World.listeners, in registration order
    tau,           \* ActionMachine.tau
    am,            \* position inside ActionMachine.run_action / check_state
    pre            \* the joints and lock evaluations the last World.step began from

vars == <<world, listeners, tau, am, pre>>

\* --------------------------------------------------------- configuration
None == [set |-> FALSE, v |-> 0]
Some(x) == [set |-> TRUE, v |-> x]

\* Joint(states, dampings, limits, noise): the handle and the window of
\* create_drawer_with_key with open_at = 90 and limits [[0, 180], [0, 120]]
JointStates == << <<80 * S, 100 * S>>, <<120 * S>> >>
JointDampings == << <<15, 200, 15>>, <<15, 15>> >>
JointMinLimit == << Some(0), Some(0) >>
JointMaxLimit == << Some(180 * S), Some(120 * S) >>
\* noise: the standard deviation of the q and vel sensors; the handle's are
\* exact, the window's are off by up to one unit
JointNoise == << [q |-> 0, vel |-> 0], [q |-> 1, vel |-> 1] >>

NJ == Len(JointStates)
JointIds == 1..NJ

\* Joint.max_vel = np.inf
max_vel == None

ControllerL(j) == [kind |-> "Controller", joint |-> j, locker |-> 0,
                   locked |-> 0, locks |-> << >>]
LockerL(a, b, lower, upper) == [kind |-> "Locker", joint |-> 0, locker |-> a,
                                locked |-> b, locks |-> << <<lower, upper>> >>]
MultiLockerL(a, b, locks) == [kind |-> "MultiLocker", joint |-> 0,
                              locker |-> a, locked |-> b, locks |-> locks]

\* the worlds of the runs: joint 1 (A, the handle) is the locker, joint 2
\* (B, the window) the target.  The last is create_drawer_with_key's, with
\* the controllers registered after it.
Worlds ==
    { << MultiLockerL(1, 2, << <<80 * S, 100 * S>> >>),
         ControllerL(1), ControllerL(2) >>,
      << ControllerL(1), ControllerL(2),
         MultiLockerL(1, 2, << <<10 * S, 20 * S>>, <<50 * S, 60 * S>> >>) >>,
      << ControllerL(1), LockerL(1, 2, 10 * S, 20 * S), ControllerL(2) >>,
      << MultiLockerL(1, 2, << <<0, 80 * S>>, <<100 * S, 180 * S>> >>),
         ControllerL(1), ControllerL(2) >> }

\* ------------------------------------------------------------------ Joint
NewJoint == [q |-> 0, vel |-> 0, locked |-> FALSE]

\* min(self.vel, self.max_vel) with max_vel possibly infinite
MinVel(v, m) == IF m.set THEN Min(v, m.v) ELSE v

\* mutant: the force is added whether the joint is locked or not
Joint_add_force_unguarded(j, f) ==
    [j EXCEPT !.vel = MinVel(j.vel + f, max_vel)]

Joint_add_force(j, f) ==
    IF ~j.locked THEN [j EXCEPT !.vel = MinVel(j.vel + f, max_vel)] ELSE j

\* mutant: the velocity is kept
Joint_lock_keeps_vel(j) == [j EXCEPT !.locked = TRUE]

Joint_lock(j) == [j EXCEPT !.vel = 0, !.locked = TRUE]

Joint_unlock(j) == [j EXCEPT !.locked = FALSE]

Joint_is_locked(j) == j.locked

\* mutant: only max_limit is tested
Joint_limit_max_only(x, lo, hi) ==
    LET overMax == hi.set /\ x > hi.v
    IN [q |-> IF overMax THEN hi.v ELSE x,
        change_direction |-> IF overMax THEN 1 ELSE -1]

\* the position after integration and the two limit tests, and whether a
\* limit was hit (change_direction = 1)
Joint_limit(x, lo, hi) ==
    LET overMax == hi.set /\ x > hi.v
        q1 == IF overMax THEN hi.v ELSE x
        underMin == lo.set /\ q1 < lo.v
        q2 == IF underMin THEN lo.v ELSE q1
    IN [q |-> q2, change_direction |-> IF overMax \/ underMin THEN 1 ELSE -1]

\* mutant: friction is left out
Joint_step_undamped(j, n, dt) ==
    IF j.locked
    THEN [joint |-> j, out |-> <<j.q, j.vel, j.locked, 0>>, state |-> -1]
    ELSE LET lim == Joint_limit(j.q + Scaled(j.vel, dt),
                                JointMinLimit[n], JointMaxLimit[n])
             state == get_state(lim.q, JointStates[n])
             direction == (-lim.change_direction) * sgn(j.vel)
             v == direction * Abs(j.vel)
         IN [joint |-> [j EXCEPT !.q = lim.q, !.vel = v],
             out |-> <<lim.q, v, j.locked, direction>>, state |-> state]

\* mutant: the zone is looked up before the position is integrated
Joint_step_stale_zone(j, n, dt) ==
    IF j.locked
    THEN [joint |-> j, out |-> <<j.q, j.vel, j.locked, 0>>, state |-> -1]
    ELSE LET lim == Joint_limit(j.q + Scaled(j.vel, dt),
                                JointMinLimit[n], JointMaxLimit[n])
             state == get_state(j.q, JointStates[n])
             damping == JointDampings[n][state + 1]
             direction == (-lim.change_direction) * sgn(j.vel)
             tmp_sqr_vel == Max(j.vel * j.vel - Abs(damping * j.vel * dt), 0)
             v == direction * Sqrt(tmp_sqr_vel, Abs(j.vel))
         IN [joint |-> [j EXCEPT !.q = lim.q, !.vel = v],
             out |-> <<lim.q, v, j.locked, direction>>, state |-> state]

\* Joint.step of joint number n: the joint after the step, the sample
\* <<q, v, locked, direction>> it returns and the zone it looked the damping
\* up in (state; -1 when it returned before the lookup)
Joint_step(j, n, dt) ==
    IF j.locked
    THEN [joint |-> j, out |-> <<j.q, j.vel, j.locked, 0>>, state |-> -1]
    ELSE LET lim == Joint_limit(j.q + Scaled(j.vel, dt),
                                JointMinLimit[n], JointMaxLimit[n])
             state == get_state(lim.q, JointStates[n])
             damping == JointDampings[n][state + 1]
             direction == (-lim.change_direction) * sgn(j.vel)
             tmp_sqr_vel == Max(j.vel * j.vel - Abs(damping * j.vel * dt), 0)
             v == direction * Sqrt(tmp_sqr_vel, Abs(j.vel))
         IN [joint |-> [j EXCEPT !.q = lim.q, !.vel = v],
             out |-> <<lim.q, v, j.locked, direction>>, state |-> state]

\* random.gauss(mu, sigma) returns mu + e for an error e within sigma
Errors(sigma) == (-sigma)..sigma

Joint_get_q(j, e) == j.q + e

Joint_get_vel(j, e) == j.vel + e

\* ------------------------------------------------- PositionController
q_eps == S \div 2
v_eps == S \div 100
kp == 2
kd == 1
ki == 0

NewPositionController == [goal_pos |-> None, q |-> 0, v |-> 0, i |-> 0]

\* mutant: a locked joint does not count as arrived
PositionController_is_done_unless_locked(p, j) ==
    IF ~p.goal_pos.set THEN TRUE
    ELSE IF Abs(p.q - p.goal_pos.v) < q_eps /\ Abs(p.v) < v_eps THEN TRUE
    ELSE FALSE

PositionController_is_done(p, j) ==
    IF ~p.goal_pos.set THEN TRUE
    ELSE IF Abs(p.q - p.goal_pos.v) < q_eps /\ Abs(p.v) < v_eps THEN TRUE
    ELSE IF Joint_is_locked(j) THEN TRUE
    ELSE FALSE

\* _pid_control: the controller after it and the force it returns
PositionController_pid_control(p, j) ==
    IF ~p.goal_pos.set THEN [pc |-> p, force |-> 0]
    ELSE IF PositionController_is_done(p, j) THEN [pc |-> p, force |-> 0]
    ELSE LET i1 == p.i + (p.goal_pos.v - p.q)
         IN [pc |-> [p EXCEPT !.i = i1],
             force |-> kp * (p.goal_pos.v - p.q) + kd * (-p.v) + ki * i1]

\* step(dt) with sq, sv the readings get_q() and get_vel() return
PositionController_step(p, j, sq, sv) ==
    PositionController_pid_control([p EXCEPT !.q = sq, !.v = sv], j)

\* ----------------------------------------------------- ForceController
NewForceController == [time |-> 0, force |-> 0]

ForceController_apply_force(f, t, force) == [time |-> t, force |-> force]

ForceController_is_done(f) == f.time <= 0

ForceController_step(f, dt) ==
    LET t1 == Max(0, f.time - dt)
    IN [fc |-> [f EXCEPT !.time = t1],
        force |-> IF t1 > 0 THEN f.force ELSE 0]

\* ------------------------------------------------------------- Controller
max_force == 15 * S

NewController(n) ==
    [joint |-> n, force_control |-> FALSE, position_control |-> FALSE,
     force_controller |-> NewForceController,
     position_controller |-> NewPositionController]

\* mutant: force mode is left as soon as the command has run out
Controller_desired_eager(c, j, dt, sq, sv) ==
    IF c.force_control
    THEN IF ForceController_is_done(c.force_controller)
         THEN [c |-> [c EXCEPT !.force_control = FALSE],
               desired_force |-> 0, pid |-> FALSE]
         ELSE LET r == ForceController_step(c.force_controller, dt)
              IN [c |-> [c EXCEPT !.force_controller = r.fc,
                                  !.force_control = ~ForceController_is_done(r.fc)],
                  desired_force |-> r.force, pid |-> FALSE]
    ELSE IF c.position_control
    THEN IF PositionController_is_done(c.position_controller, j)
         THEN [c |-> [c EXCEPT !.position_control = FALSE],
               desired_force |-> 0, pid |-> FALSE]
         ELSE LET r == PositionController_step(c.position_controller, j, sq, sv)
              IN [c |-> [c EXCEPT !.position_controller = r.pc],
                  desired_force |-> r.force, pid |-> TRUE]
    ELSE [c |-> c, desired_force |-> 0, pid |-> FALSE]

\* mutant: position mode is looked at first
Controller_desired_position_first(c, j, dt, sq, sv) ==
    IF c.position_control
    THEN IF PositionController_is_done(c.position_controller, j)
         THEN [c |-> [c EXCEPT !.position_control = FALSE],
               desired_force |-> 0, pid |-> FALSE]
         ELSE LET r == PositionController_step(c.position_controller, j, sq, sv)
              IN [c |-> [c EXCEPT !.position_controller = r.pc],
                  desired_force |-> r.force, pid |-> TRUE]
    ELSE IF c.force_control
    THEN IF ForceController_is_done(c.force_controller)
         THEN [c |-> [c EXCEPT !.force_control = FALSE],
               desired_force |-> 0, pid |-> FALSE]
         ELSE LET r == ForceController_step(c.force_controller, dt)
              IN [c |-> [c EXCEPT !.force_controller = r.fc],
                  desired_force |-> r.force, pid |-> FALSE]
    ELSE [c |-> c, desired_force |-> 0, pid |-> FALSE]

\* the first half of Controller.step: the mode flags, the strategies and the
\* desired force; pid tells whether PositionController.step was evaluated
Controller_desired(c, j, dt, sq, sv) ==
    IF c.force_control
    THEN IF ForceController_is_done(c.force_controller)
         THEN [c |-> [c EXCEPT !.force_control = FALSE],
               desired_force |-> 0, pid |-> FALSE]
         ELSE LET r == ForceController_step(c.force_controller, dt)
              IN [c |-> [c EXCEPT !.force_controller = r.fc],
                  desired_force |-> r.force, pid |-> FALSE]
    ELSE IF c.position_control
    THEN IF PositionController_is_done(c.position_controller, j)
         THEN [c |-> [c EXCEPT !.position_control = FALSE],
               desired_force |-> 0, pid |-> FALSE]
         ELSE LET r == PositionController_step(c.position_controller, j, sq, sv)
              IN [c |-> [c EXCEPT !.position_controller = r.pc],
                  desired_force |-> r.force, pid |-> TRUE]
    ELSE [c |-> c, desired_force |-> 0, pid |-> FALSE]

\* mutant: the bound is applied to the positive side only
Controller_applied_one_sided(desired_force) ==
    Min(desired_force, max_force)

\* sign * min(abs(desired_force), self.max_force)
Controller_applied(desired_force) ==
    sgn(desired_force) * Min(Abs(desired_force), max_force)

\* Controller.step: the controller and its joint after the step, the pair
\* <<applied_force, desired_force>> it returns, and the forces it passed to
\* Joint.add_force, in order
Controller_step(c, j, dt, sq, sv) ==
    LET d == Controller_desired(c, j, dt, sq, sv)
        applied_force == Controller_applied(d.desired_force)
    IN [c |-> d.c,
        joint |-> Joint_add_force(j, applied_force),
        out |-> <<applied_force, d.desired_force>>,
        pid |-> d.pid,
        added |-> <<applied_force>>]

Controller_move_to(c, goal) ==
    [c EXCEPT !.position_controller.goal_pos = Some(goal),
              !.position_control = TRUE]

Controller_apply_force(c, t, force) ==
    [c EXCEPT !.force_controller =
                  ForceController_apply_force(c.force_controller, t, force),
              !.force_control = TRUE]

Controller_is_done(c) == c.position_control = FALSE /\ c.force_control = FALSE

\* ---------------------------------------------------- Locker, MultiLocker
\* Locker.step on the locker joint a and the target b: the target after it,
\* the evaluation of the interval test and the calls made on the target
\* mutant: the bounds belong to the interval
Locker_step_inclusive(l, a, b) ==
    IF l.locks[1][1] <= a.q /\ a.q <= l.locks[1][2]
    THEN IF ~Joint_is_locked(b)
         THEN [joint |-> Joint_lock(b), should |-> TRUE, call |-> "lock"]
         ELSE [joint |-> b, should |-> TRUE, call |-> "none"]
    ELSE IF Joint_is_locked(b)
         THEN [joint |-> Joint_unlock(b), should |-> FALSE, call |-> "unlock"]
         ELSE [joint |-> b, should |-> FALSE, call |-> "none"]

\* mutant: lock() and unlock() are called whatever the target's state is
Locker_step_unguarded(l, a, b) ==
    IF l.locks[1][1] < a.q /\ a.q < l.locks[1][2]
    THEN [joint |-> Joint_lock(b), should |-> TRUE, call |-> "lock"]
    ELSE [joint |-> Joint_unlock(b), should |-> FALSE, call |-> "unlock"]

\* if self.lower < self.locker.q < self.upper: lock the unlocked target,
\* else unlock the locked target
Locker_step(l, a, b) ==
    IF l.locks[1][1] < a.q /\ a.q < l.locks[1][2]
    THEN IF ~Joint_is_locked(b)
         THEN [joint |-> Joint_lock(b), should |-> TRUE, call |-> "lock"]
         ELSE [joint |-> b, should |-> TRUE, call |-> "none"]
    ELSE IF Joint_is_locked(b)
         THEN [joint |-> Joint_unlock(b), should |-> FALSE, call |-> "unlock"]
         ELSE [joint |-> b, should |-> FALSE, call |-> "none"]

\* mutant: the bounds do not belong to the intervals
MultiLocker_should_exclusive(l, a) ==
    \E k \in 1..Len(l.locks) : l.locks[k][1] < a.q /\ a.q < l.locks[k][2]

\* should_be_locked: lock[0] <= self.locker.q <= lock[1] for some lock
MultiLocker_should(l, a) ==
    \E k \in 1..Len(l.locks) : l.locks[k][1] <= a.q /\ a.q <= l.locks[k][2]

\* mutant: the lock branch calls unlock()
MultiLocker_step_unlocks(l, a, b) ==
    LET is_locked == Joint_is_locked(b)
        should_be_locked == MultiLocker_should(l, a)
    IN IF is_locked /\ ~should_be_locked
       THEN [joint |-> Joint_unlock(b), should |-> should_be_locked,
             call |-> "unlock"]
       ELSE IF ~is_locked /\ should_be_locked
       THEN [joint |-> Joint_unlock(b), should |-> should_be_locked,
             call |-> "unlock"]
       ELSE [joint |-> b, should |-> should_be_locked, call |-> "none"]

MultiLocker_step(l, a, b) ==
    LET is_locked == Joint_is_locked(b)
        should_be_locked == MultiLocker_should(l, a)
    IN IF is_locked /\ ~should_be_locked
       THEN [joint |-> Joint_unlock(b), should |-> should_be_locked,
             call |-> "unlock"]
       ELSE IF ~is_locked /\ should_be_locked
       THEN [joint |-> Joint_lock(b), should |-> should_be_locked,
             call |-> "lock"]
       ELSE [joint |-> b, should |-> should_be_locked, call |-> "none"]

\* ----------------------------------------------------------------- inputs
\* ActionMachine.tau: the default 0.1, and 1
Taus == {S \div 10, S}
\* goals of move_to and run_action
Goals == {15 * S, 90 * S}
\* <<time, force>> of apply_force
Forces == { <<7 * S, 10 * S>>, <<S \div 2, 15 * S>>, <<2 * S, -(20 * S)>> }
\* position lists of run_action: entry n is the goal of joint n
Actions == {<<g>> : g \in Goals} \cup {<<g, h>> : g \in Goals, h \in {15 * S}}

\* ------------------------------------------------------------------- Init
\* op, pc: the running method and the position in it; pos, j: run_action's
\* argument and loop index; i, old_pos, new_pos: check_state's locals; ret:
\* check_state's last return value (-1: none).  The rest is history of the
\* running call: the time it began (t0) and returned (t1), the World.steps it
\* made (steps), whether the probed joint was locked at the call
\* (was_locked) and after every tick of it (kept_locked), and the ticks in
\* which the probed joint's controller desired the probe force (pushes).
NoAction == [op |-> "none", pc |-> "none", pos |-> << >>, j |-> 0, i |-> 0,
             old_pos |-> 0, new_pos |-> 0, ret |-> -1, t0 |-> 0, t1 |-> 0,
             steps |-> 0, was_locked |-> FALSE, kept_locked |-> FALSE,
             pushes |-> 0]

Zeros == [n \in JointIds |-> 0]

\* world.joints       World.joints, each a Joint (q, vel, locked)
\* world.time         World.time
\* world.controllers  the Controller of each joint, with its two strategies
\* world.sample       the values the last Joint.step of each joint returned
\* world.emitted      the values the last Controller.step returned
\* world.should       the last should-be-locked evaluation of each listener
\*                    (-1: none yet)
\* world.last         the last Controller.step of each controller: the
\*                    controller and the joint before it, the controller
\*                    after it, whether PositionController.step ran, the
\*                    desired force and the forces passed to add_force
\* world.calls        the number of calls made so far, by kind: World.step
\*                    (step; own: by the caller itself; noisy: with a sensor
\*                    reading off), the caller's commands (cmds), lock() and
\*                    unlock() on each joint (relock, reunlock: on a joint
\*                    already in that state), and the times each joint went
\*                    from unlocked to locked (locked_up)
\* world.trace        the calls the last World.step made, in order
Init ==
    /\ listeners \in Worlds
    /\ world = [joints |-> [n \in JointIds |-> NewJoint],
                time |-> 0,
                controllers |-> [n \in JointIds |-> NewController(n)],
                sample |-> [n \in JointIds |-> <<0, 0, FALSE, 0>>],
                emitted |-> [n \in JointIds |-> <<0, 0>>],
                should |-> [k \in DOMAIN listeners |-> -1],
                last |-> [n \in JointIds |->
                            [before |-> NewController(n),
                             after |-> NewController(n),
                             pid |-> FALSE, added |-> << >>, desired |-> 0,
                             joint |-> NewJoint]],
                calls |-> [step |-> 0, cmds |-> 0, own |-> 0, noisy |-> 0,
                           lock |-> Zeros,
                           unlock |-> Zeros, locked_up |-> Zeros,
                           relock |-> Zeros, reunlock |-> Zeros],
                trace |-> << >>]
    /\ tau \in Taus
    /\ am = NoAction
    /\ pre = [joints |-> world.joints, should |-> world.should, dt |-> 0]

\* ------------------------------------------------------------- World.step
\* The world inside a World.step is the record w of the variables the step
\* changes; each call of the step maps w to the w after it.

\* joint.step(dt) of joint n
JointStepped(w, n, dt) ==
    LET r == Joint_step(w.joints[n], n, dt)
    IN [w EXCEPT !.joints[n] = r.joint,
                 !.sample[n] = r.out,
                 !.trace = Append(@, [who |-> "joint", idx |-> n,
                                      q |-> r.joint.q])]

\* listener.step(dt) of a Controller, with the sensor errors e of its joint
ControllerStepped(w, k, dt, e) ==
    LET n == listeners[k].joint
        r == Controller_step(w.controllers[n], w.joints[n], dt,
                             Joint_get_q(w.joints[n], e[1]),
                             Joint_get_vel(w.joints[n], e[2]))
    IN [w EXCEPT !.controllers[n] = r.c,
                 !.joints[n] = r.joint,
                 !.emitted[n] = r.out,
                 !.last[n] = [before |-> w.controllers[n], after |-> r.c,
                              pid |-> r.pid, added |-> r.added,
                              desired |-> r.out[2],
                              joint |-> w.joints[n]],
                 !.trace = Append(@, [who |-> "listener", idx |-> k,
                                      q |-> w.joints[n].q])]

\* listener.step(dt) of a Locker or a MultiLocker
LockerStepped(w, k) ==
    LET l == listeners[k]
        b == l.locked
        r == IF l.kind = "Locker"
             THEN Locker_step(l, w.joints[l.locker], w.joints[b])
             ELSE MultiLocker_step(l, w.joints[l.locker], w.joints[b])
    IN [w EXCEPT !.joints[b] = r.joint,
                 !.should[k] = IF r.should THEN 1 ELSE 0,
                 !.calls.lock[b] = @ + (IF r.call = "lock" THEN 1 ELSE 0),
                 !.calls.unlock[b] = @ + (IF r.call = "unlock" THEN 1 ELSE 0),
                 !.calls.relock[b] =
                     @ + (IF r.call = "lock" /\ w.joints[b].locked THEN 1 ELSE 0),
                 !.calls.reunlock[b] =
                     @ + (IF r.call = "unlock" /\ ~w.joints[b].locked THEN 1 ELSE 0),
                 !.calls.locked_up[b] =
                     @ + (IF ~w.joints[b].locked /\ r.joint.locked THEN 1 ELSE 0),
                 !.trace = Append(@, [who |-> "listener", idx |-> k,
                                      q |-> w.joints[l.locker].q])]

ListenerStepped(w, k, dt, errs) ==
    IF listeners[k].kind = "Controller"
    THEN ControllerStepped(w, k, dt, errs[listeners[k].joint])
    ELSE LockerStepped(w, k)

\* for joint in self.joints: joint.step(dt), from joint n on
RECURSIVE JointsStepped(_, _, _)
JointsStepped(w, n, dt) ==
    IF n > NJ THEN w ELSE JointsStepped(JointStepped(w, n, dt), n + 1, dt)

\* _inform_listeners(dt), from listener k on
RECURSIVE ListenersInformed(_, _, _, _)
ListenersInformed(w, k, dt, errs) ==
    IF k > Len(listeners) THEN w
    ELSE ListenersInformed(ListenerStepped(w, k, dt, errs), k + 1, dt, errs)

\* mutant: the listeners are informed before the joints step
World_step_listeners_first(w, dt, errs) ==
    JointsStepped(ListenersInformed([w EXCEPT !.time = @ + dt], 1, dt, errs),
                  1, dt)

\* World.step(dt)
World_step(w, dt, errs) ==
    ListenersInformed(JointsStepped([w EXCEPT !.time = @ + dt], 1, dt),
                      1, dt, errs)

\* the sensor errors joint n's PositionController can meet in the next
\* World.step: it reads the sensors only in position mode
ErrorsOf(n) ==
    IF /\ world.controllers[n].position_control
       /\ ~world.controllers[n].force_control
       /\ world.calls.noisy < MaxNoisy
    THEN Errors(JointNoise[n].q) \X Errors(JointNoise[n].vel)
    ELSE {<<0, 0>>}

\* one World.step(dt) of the running program; own tells whether the caller
\* makes it itself
WorldStep(dt, own) ==
    /\ world.calls.step < MaxTicks
    /\ \E errs \in {f \in [JointIds -> UNION {ErrorsOf(n) : n \in JointIds}] :
                      \A n \in JointIds : f[n] \in ErrorsOf(n)} :
         LET off == \E n \in JointIds : errs[n] # <<0, 0>>
         IN world' = World_step(
                [world EXCEPT !.calls.step = @ + 1,
                              !.calls.noisy = @ + (IF off THEN 1 ELSE 0),
                              !.calls.own = @ + (IF own THEN 1 ELSE 0),
                              !.trace = << >>], dt, errs)
    /\ pre' = [joints |-> world.joints, should |-> world.should, dt |-> dt]

\* ----------------------------------------------------- the caller's calls
AtRest == am.op = "none"

\* a World.step of the caller's own, at the ActionMachine's tick size
Step ==
    /\ AtRest
    /\ world.calls.own < MaxSteps
    /\ WorldStep(tau, TRUE)
    /\ UNCHANGED <<listeners, tau, am>>

MoveTo ==
    /\ AtRest
    /\ world.calls.cmds < MaxCmds
    /\ \E n \in JointIds, g \in Goals :
         world' = [world EXCEPT !.controllers[n] = Controller_move_to(@, g),
                                !.calls.cmds = @ + 1]
    /\ UNCHANGED <<listeners, tau, am, pre>>

ApplyForce ==
    /\ AtRest
    /\ world.calls.cmds < MaxCmds
    /\ \E n \in JointIds, f \in Forces :
         world' = [world EXCEPT
                     !.controllers[n] = Controller_apply_force(@, f[1], f[2]),
                     !.calls.cmds = @ + 1]
    /\ UNCHANGED <<listeners, tau, am, pre>>

\* ------------------------------------------------ ActionMachine.run_action
RunAction ==
    /\ AtRest
    /\ world.calls.cmds < MaxCmds
    /\ \E pos \in Actions :
         am' = [NoAction EXCEPT !.op = "run_action", !.pc = "for",
                                !.pos = pos, !.j = 1, !.t0 = world.time]
    /\ world' = [world EXCEPT !.calls.cmds = @ + 1]
    /\ UNCHANGED <<listeners, tau, pre>>

\* for j, p in enumerate(pos): self.controllers[j].move_to(p)
RunActionFor ==
    /\ am.op = "run_action" /\ am.pc = "for"
    /\ IF am.j <= Len(am.pos)
       THEN /\ world' = [world EXCEPT !.controllers[am.j] =
                                        Controller_move_to(@, am.pos[am.j])]
            /\ am' = [am EXCEPT !.pc = "while"]
       ELSE /\ am' = [am EXCEPT !.op = "none", !.pc = "none"]
            /\ UNCHANGED world
    /\ UNCHANGED <<listeners, tau, pre>>

\* mutant: the loop gives up after its first World.step
RunActionWhile_one_step ==
    /\ am.op = "run_action" /\ am.pc = "while"
    /\ IF Controller_is_done(world.controllers[am.j]) \/ am.steps > 0
       THEN /\ am' = [am EXCEPT !.pc = "for", !.j = @ + 1]
            /\ UNCHANGED <<world, pre>>
       ELSE /\ WorldStep(tau, FALSE)
            /\ am' = [am EXCEPT !.steps = @ + 1]
    /\ UNCHANGED <<listeners, tau>>

\* while not self.controllers[j].is_done(): self.world.step(self.tau)
RunActionWhile ==
    /\ am.op = "run_action" /\ am.pc = "while"
    /\ IF Controller_is_done(world.controllers[am.j])
       THEN /\ am' = [am EXCEPT !.pc = "for", !.j = @ + 1]
            /\ UNCHANGED <<world, pre>>
       ELSE /\ WorldStep(tau, FALSE)
            /\ am' = [am EXCEPT !.steps = @ + 1]
    /\ UNCHANGED <<listeners, tau>>

\* ----------------------------------------------- ActionMachine.check_state
ProbeTicks == 10
ProbeTime == 1 * S
ProbeForce == 10 * S
ProbeEps == S \div 100

\* old_pos = self.world.joints[joint].q; apply_force(1, 10)
CheckState ==
    /\ AtRest
    /\ world.calls.cmds < MaxCmds
    /\ world.calls.step + ProbeTicks <= MaxTicks
    /\ \E n \in JointIds :
         /\ am' = [NoAction EXCEPT !.op = "check_state", !.pc = "range",
                                   !.j = n, !.old_pos = world.joints[n].q,
                                   !.was_locked = Joint_is_locked(world.joints[n]),
                                   !.kept_locked = Joint_is_locked(world.joints[n]),
                                   !.t0 = world.time]
         /\ world' = [world EXCEPT
                        !.controllers[n] =
                            Controller_apply_force(@, ProbeTime, ProbeForce),
                        !.calls.cmds = @ + 1]
    /\ UNCHANGED <<listeners, tau, pre>>

\* for i in range(10): self.world.step(self.tau)
CheckStateRange ==
    /\ am.op = "check_state" /\ am.pc = "range"
    /\ am.i < ProbeTicks
    /\ WorldStep(tau, FALSE)
    /\ am' = [am EXCEPT
                !.i = @ + 1, !.steps = @ + 1,
                !.kept_locked = @ /\ world'.joints[am.j].locked,
                !.pushes = @ + (IF world'.emitted[am.j][2] = ProbeForce
                                THEN 1 ELSE 0)]
    /\ UNCHANGED <<listeners, tau>>

\* mutant: the two outcomes are swapped
locked_state_swapped(old_pos, new_pos) ==
    IF Abs(old_pos - new_pos) > ProbeEps THEN 1 ELSE 0

\* the comparison of the two positions
locked_state(old_pos, new_pos) ==
    IF Abs(old_pos - new_pos) > ProbeEps THEN 0 ELSE 1

\* mutant: the loop ends one tick early
CheckStateReturn_early ==
    /\ am.op = "check_state" /\ am.pc = "range"
    /\ am.i = ProbeTicks - 1
    /\ am' = [am EXCEPT !.op = "none", !.pc = "none",
                        !.new_pos = world.joints[am.j].q, !.t1 = world.time,
                        !.ret = locked_state(am.old_pos, world.joints[am.j].q)]
    /\ UNCHANGED <<world, listeners, tau, pre>>

\* new_pos = self.world.joints[joint].q; return locked_state
CheckStateReturn ==
    /\ am.op = "check_state" /\ am.pc = "range"
    /\ am.i = ProbeTicks
    /\ am' = [am EXCEPT !.op = "none", !.pc = "none",
                        !.new_pos = world.joints[am.j].q, !.t1 = world.time,
                        !.ret = locked_state(am.old_pos, world.joints[am.j].q)]
    /\ UNCHANGED <<world, listeners, tau, pre>>

\* ------------------------------------------------------------------- Spec
Next ==
    \/ Step
    \/ MoveTo
    \/ ApplyForce
    \/ RunAction
    \/ RunActionFor
    \/ RunActionWhile
    \/ CheckState
    \/ CheckStateRange
    \/ CheckStateReturn

Spec == Init /\ [][Next]_vars

\* ------------------------------------------------------------- JointSpec
\* One Joint of the world driven through its own methods, and the module
\* function get_state called on its own: the same variables, with no
\* listeners registered, am holding the last call (its method, arguments
\* and result) and pre the joints before it.

\* calls made on the joint in one run
MaxCalls == 4
\* largest speed the joint is driven to: keeps vel * vel within TLC's integers
MaxVel == 400 * S

\* arguments of add_force
JointForces == {-(15 * S), 10 * S, 80 * S, 190 * S}
\* arguments of get_state: the threshold lists of the joints, one more list,
\* and the positions on and next to each threshold
StatesLists == {JointStates[n] : n \in JointIds} \cup {<<10 * S, 20 * S, 50 * S>>}
Positions(states) ==
    UNION {{states[i] - 1, states[i], states[i] + 1} : i \in DOMAIN states}

NoCall == [op |-> "none", n |-> 0, f |-> 0, dt |-> 0, out |-> << >>,
           state |-> -1, x |-> 0, states |-> << >>, ret |-> -1]

JointInit ==
    /\ listeners = << >>
    /\ world = [joints |-> [n \in JointIds |-> NewJoint],
                time |-> 0,
                controllers |-> [n \in JointIds |-> NewController(n)],
                sample |-> [n \in JointIds |-> <<0, 0, FALSE, 0>>],
                emitted |-> [n \in JointIds |-> <<0, 0>>],
                should |-> << >>,
                last |-> [n \in JointIds |->
                            [before |-> NewController(n),
                             after |-> NewController(n),
                             pid |-> FALSE, added |-> << >>, desired |-> 0,
                             joint |-> NewJoint]],
                calls |-> [step |-> 0, cmds |-> 0, own |-> 0, noisy |-> 0,
                           lock |-> Zeros,
                           unlock |-> Zeros, locked_up |-> Zeros,
                           relock |-> Zeros, reunlock |-> Zeros],
                trace |-> << >>]
    /\ tau \in Taus
    /\ am \in {[NoCall EXCEPT !.n = n] : n \in JointIds}
    /\ pre = [joints |-> world.joints, should |-> world.should, dt |-> 0]

\* the joint after a call, the call and the joints before it
JointCalled(j, call) ==
    /\ world.calls.cmds < MaxCalls
    /\ world' = [world EXCEPT !.joints[am.n] = j, !.calls.cmds = @ + 1]
    /\ am' = call
    /\ pre' = [joints |-> world.joints, should |-> world.should, dt |-> call.dt]
    /\ UNCHANGED <<listeners, tau>>

JointAddForce ==
    \E f \in JointForces :
        /\ Abs(world.joints[am.n].vel + f) <= MaxVel
        /\ JointCalled(Joint_add_force(world.joints[am.n], f),
                       [NoCall EXCEPT !.op = "add_force", !.n = am.n, !.f = f])

JointLock ==
    JointCalled(Joint_lock(world.joints[am.n]),
                [NoCall EXCEPT !.op = "lock", !.n = am.n])

JointUnlock ==
    JointCalled(Joint_unlock(world.joints[am.n]),
                [NoCall EXCEPT !.op = "unlock", !.n = am.n])

JointStep ==
    LET r == Joint_step(world.joints[am.n], am.n, tau)
    IN JointCalled(r.joint,
                   [NoCall EXCEPT !.op = "step", !.n = am.n, !.dt = tau,
                                  !.out = r.out, !.state = r.state])

GetState ==
    /\ \E states \in StatesLists : \E x \in Positions(states) :
          am' = [NoCall EXCEPT !.op = "get_state", !.n = am.n, !.x = x,
                               !.states = states, !.ret = get_state(x, states)]
    /\ UNCHANGED <<world, listeners, tau, pre>>

JointNext ==
    \/ JointAddForce
    \/ JointLock
    \/ JointUnlock
    \/ JointStep
    \/ GetState

JointSpec == JointInit /\ [][JointNext]_vars

\* ================================================================ claims
\* a World.step has been made, and the state is the one it left (the
\* caller's commands change controllers only)
Stepped == world.calls.step > 0

\* the Locker and MultiLocker listeners
Lockers == {k \in DOMAIN listeners : listeners[k].kind # "Controller"}
MultiLockers == {k \in DOMAIN listeners : listeners[k].kind = "MultiLocker"}

\* the world of the end-to-end test: one MultiLocker with interval (80, 100)
CoupledWorld ==
    \E k \in MultiLockers : listeners[k].locks = << <<80 * S, 100 * S>> >>

\* C1: a World.step that starts after the MultiLocker has evaluated the
\* locker's position as inside its interval leaves the target's position as
\* it was, whatever the target's Controller was told.
C1_LockedTargetStays ==
    \A k \in MultiLockers :
        (Stepped /\ pre.should[k] = 1) =>
            world.joints[listeners[k].locked].q = pre.joints[listeners[k].locked].q

\* C1 witness: in the world with interval (80, 100), a step that began with A
\* evaluated inside, with B's Controller in position mode towards a goal
\* away from B's position.
C1_Witness ==
    /\ CoupledWorld
    /\ Stepped
    /\ \E k \in MultiLockers :
         /\ pre.should[k] = 1
         /\ LET b == listeners[k].locked
                c == world.last[b].before
            IN /\ c.position_control
               /\ c.position_controller.goal_pos.set
               /\ c.position_controller.goal_pos.v # pre.joints[b].q

\* C2: in every World.step all joints step, in index order, before any
\* listener, and the listeners step in registration order; so each Locker
\* and MultiLocker reads the position its locker joint has after this
\* tick's update, every joint's update of this tick is the update of the
\* state the tick began with, and the lock flag that update saw is the one
\* decided in the tick before.
C2_JointsThenListeners ==
    Stepped =>
        /\ Len(world.trace) = NJ + Len(listeners)
        /\ \A n \in JointIds :
             /\ world.trace[n].who = "joint"
             /\ world.trace[n].idx = n
             /\ world.sample[n] = Joint_step(pre.joints[n], n, pre.dt).out
        /\ \A k \in DOMAIN listeners :
             /\ world.trace[NJ + k].who = "listener"
             /\ world.trace[NJ + k].idx = k
        /\ \A k \in Lockers :
             /\ world.trace[NJ + k].q = world.sample[listeners[k].locker][1]
             /\ pre.should[k] # -1 =>
                  world.sample[listeners[k].locked][3] = (pre.should[k] = 1)

\* C2 witness: a tick in which the target moved and the lock was decided:
\* the decision did not undo the move.
C2_Witness ==
    /\ Stepped
    /\ \E k \in Lockers :
         /\ pre.should[k] = 0
         /\ world.should[k] = 1
         /\ world.joints[listeners[k].locked].locked
         /\ world.joints[listeners[k].locked].q # pre.joints[listeners[k].locked].q
         /\ world.joints[listeners[k].locker].q # pre.joints[listeners[k].locker].q

\* check_state has returned and nothing was called since
Returned == am.op = "none" /\ am.ret # -1

\* C3 as claimed: check_state(j) returns 1 whenever j is locked when it is
\* called, and 0 for a joint that moved by more than 0.01.
C3_Original ==
    Returned =>
        /\ am.was_locked => am.ret = 1
        /\ Abs(am.new_pos - am.old_pos) > S \div 100 => am.ret = 0

\* C3, amended: check_state(j) returns 1 when j is locked when it is called
\* and is still locked after every tick of the probe, and 0 for a joint that
\* moved by more than 0.01.
C3_LockedThroughout ==
    Returned =>
        /\ (am.was_locked /\ am.kept_locked) => am.ret = 1
        /\ Abs(am.new_pos - am.old_pos) > S \div 100 => am.ret = 0

\* C3 witness: a probe of a joint that was and stayed locked, in which its
\* controller did desire the probe force, returned 1.
C3_Witness ==
    /\ Returned
    /\ am.was_locked /\ am.kept_locked
    /\ am.pushes > 0
    /\ am.ret = 1

\* C4: check_state(j) records j's position, arms the command (1, 10) on
\* controller j and touches no other controller, makes exactly 10
\* World.step(tau), so that the clock advances by 10 * tau, and returns 0 if
\* the position changed by more than 0.01 and 1 otherwise.
C4_Called ==
    (am.op = "none" /\ am'.op = "check_state") =>
        /\ am'.old_pos = world.joints[am'.j].q
        /\ world'.joints = world.joints
        /\ world'.time = world.time
        /\ \A n \in JointIds :
             world'.controllers[n] =
                 IF n = am'.j
                 THEN [world.controllers[n] EXCEPT
                         !.force_control = TRUE,
                         !.force_controller = [time |-> 1 * S, force |-> 10 * S]]
                 ELSE world.controllers[n]

C4_Running ==
    (am.op = "check_state" /\ am'.op = "check_state") =>
        /\ world'.calls.step = world.calls.step + 1
        /\ world'.time = world.time + tau
        /\ am'.old_pos = am.old_pos

C4_Returned ==
    Returned =>
        /\ am.steps = 10
        /\ am.t1 = am.t0 + 10 * tau
        /\ am.ret = IF Abs(am.new_pos - am.old_pos) > S \div 100 THEN 0 ELSE 1

C4_Probe == [][C4_Called /\ C4_Running]_vars /\ []C4_Returned

\* C4 witness: a probe that found the joint moved returned 0 after its ten
\* ticks.
C4_Witness ==
    /\ Returned
    /\ am.ret = 0
    /\ am.steps = 10
    /\ Abs(am.new_pos - am.old_pos) > S \div 100

\* C5: run_action takes its goals in order: move_to for goal j, then
\* World.step(tau) as long as controller j is not done, and only then goal
\* j + 1; while goal j is being waited for every earlier goal's controller
\* is done and no other controller is told anything.
C5_Position ==
    am.op = "run_action" =>
        /\ am.j \in 1..(Len(am.pos) + 1)
        /\ \A n \in 1..(am.j - 1) : Controller_is_done(world.controllers[n])
        /\ am.pc = "while" =>
             /\ world.controllers[am.j].position_controller.goal_pos.set
             /\ world.controllers[am.j].position_controller.goal_pos.v
                    = am.pos[am.j]

C5_Move ==
    (am.op = "run_action" /\ world'.calls.step = world.calls.step) =>
        \A n \in JointIds :
            world'.controllers[n] # world.controllers[n] =>
                /\ n = am.j /\ am.pc = "for" /\ am'.pc = "while" /\ am'.j = am.j
                /\ \A m \in 1..(n - 1) : Controller_is_done(world.controllers[m])
                /\ world'.controllers[n].position_control
                /\ world'.controllers[n].position_controller.goal_pos.v
                       = am.pos[n]

C5_Wait ==
    /\ (am.op = "run_action" /\ world'.calls.step # world.calls.step) =>
           /\ am.pc = "while" /\ am'.pc = "while" /\ am'.j = am.j
           /\ ~Controller_is_done(world.controllers[am.j])
           /\ world'.time = world.time + tau
    /\ (am.op = "run_action" /\ am'.op = "run_action" /\ am'.j # am.j) =>
           /\ am'.j = am.j + 1
           /\ Controller_is_done(world.controllers[am.j])

C5_InSequence == []C5_Position /\ [][C5_Move /\ C5_Wait]_vars

\* C5 witness: run_action waits for its second goal, after having waited for
\* its first, and the second controller's PID has run.
C5_Witness ==
    /\ am.op = "run_action" /\ am.pc = "while" /\ am.j = 2
    /\ am.steps > 2
    /\ world.last[2].pid
    /\ ~Controller_is_done(world.controllers[2])

\* C6: a Controller.step that starts in force mode does not evaluate the
\* PositionController and leaves it and the position mode as they were; its
\* desired force is the ForceController's.  move_to leaves the force mode
\* and apply_force the position mode as they were.
C6_Step ==
    \A n \in JointIds :
        (Stepped /\ world.last[n].before.force_control) =>
            /\ ~world.last[n].pid
            /\ world.last[n].after.position_controller
                   = world.last[n].before.position_controller
            /\ world.last[n].after.position_control
                   = world.last[n].before.position_control
            /\ world.last[n].desired
                   \in {0, world.last[n].before.force_controller.force}

C6_Command ==
    world'.calls.step = world.calls.step =>
        \A n \in JointIds :
            LET c == world.controllers[n]
                d == world'.controllers[n]
            IN /\ d.position_controller # c.position_controller =>
                    /\ d.force_control = c.force_control
                    /\ d.force_controller = c.force_controller
               /\ d.force_controller # c.force_controller =>
                    /\ d.position_control = c.position_control
                    /\ d.position_controller = c.position_controller
               /\ c.force_control => d.force_control
               /\ c.position_control => d.position_control

C6_ForceFirst == []C6_Step /\ [][C6_Command]_vars

\* C6 witness: a Controller.step that began with both modes active, the
\* force command unfinished and the goal away from the joint.
C6_Witness ==
    /\ Stepped
    /\ \E n \in JointIds :
         LET c == world.last[n].before
         IN /\ c.force_control /\ c.position_control
            /\ ~ForceController_is_done(c.force_controller)
            /\ Abs(c.position_controller.goal_pos.v - world.last[n].joint.q) > S
            /\ ~world.last[n].joint.locked
            /\ world.last[n].desired # 0

\* C7: every Controller.step calls add_force exactly once, with the desired
\* force d bounded to magnitude 15: d itself when |d| <= 15, else 15 with
\* the sign of d.
C7_Bounded ==
    \A n \in JointIds :
        Stepped =>
            LET d == world.last[n].desired
                a == world.last[n].added
            IN /\ Len(a) = 1
               /\ a[1] = world.emitted[n][1]
               /\ d = world.emitted[n][2]
               /\ a[1] >= -(15 * S) /\ a[1] <= 15 * S
               /\ (d >= -(15 * S) /\ d <= 15 * S) => a[1] = d
               /\ d > 15 * S => a[1] = 15 * S
               /\ d < -(15 * S) => a[1] = -(15 * S)

\* C7 witness: a desired force below -15 was applied as -15.
C7_Witness ==
    /\ Stepped
    /\ \E n \in JointIds :
         /\ world.last[n].desired < -(15 * S)
         /\ world.last[n].added = << -(15 * S) >>

\* C8: after every World.step the target of a MultiLocker is locked exactly
\* when the locker joint's q lies in one of the intervals, bounds included;
\* with [(10,20),(50,60)] it is locked at 10, 20, 50 and 60 and unlocked
\* just below 10 and just above 60.
C8_InclusiveIntervals ==
    \A k \in MultiLockers :
        LET q == world.joints[listeners[k].locker].q
            locks == listeners[k].locks
            target == world.joints[listeners[k].locked]
        IN Stepped =>
             /\ target.locked <=>
                    \E i \in 1..Len(locks) : locks[i][1] <= q /\ q <= locks[i][2]
             /\ locks = << <<10 * S, 20 * S>>, <<50 * S, 60 * S>> >> =>
                    /\ q \in {10 * S, 20 * S, 50 * S, 60 * S} => target.locked
                    /\ q \in {10 * S - 1, 60 * S + 1} => ~target.locked

\* C8 witness: the locker joint stands on the bound 60 of [(10,20),(50,60)]
\* after a World.step and the target is locked.
C8_Witness ==
    /\ Stepped
    /\ \E k \in MultiLockers :
         /\ listeners[k].locks = << <<10 * S, 20 * S>>, <<50 * S, 60 * S>> >>
         /\ world.joints[listeners[k].locker].q = 60 * S
         /\ world.joints[listeners[k].locked].locked

\* C9: after every World.step the target of a Locker(lower, upper) is locked
\* exactly when lower < locker.q < upper; on a bound it is unlocked.
C9_ExclusiveInterval ==
    \A k \in Lockers \ MultiLockers :
        LET q == world.joints[listeners[k].locker].q
            lower == listeners[k].locks[1][1]
            upper == listeners[k].locks[1][2]
            target == world.joints[listeners[k].locked]
        IN Stepped =>
             /\ target.locked <=> (lower < q /\ q < upper)
             /\ q \in {lower, upper} => ~target.locked

\* C9 witness: a World.step has moved the locker joint onto the upper bound
\* and the target is unlocked.
C9_Witness ==
    /\ Stepped
    /\ \E k \in Lockers \ MultiLockers :
         /\ world.joints[listeners[k].locker].q = listeners[k].locks[1][2]
         /\ pre.joints[listeners[k].locker].q < listeners[k].locks[1][2]
         /\ ~world.joints[listeners[k].locked].locked

\* C10: a Locker or MultiLocker calls lock() only on an unlocked target that
\* should be locked and unlock() only on a locked target that should be
\* unlocked: lock() is called once for every change from unlocked to locked
\* and not in a tick that began with the target locked.
C10_Counts ==
    \A k \in Lockers :
        LET b == listeners[k].locked
        IN /\ world.calls.relock[b] = 0
           /\ world.calls.reunlock[b] = 0
           /\ world.calls.lock[b] = world.calls.locked_up[b]
           /\ world.calls.unlock[b] <= world.calls.lock[b]
           /\ world.calls.lock[b] <= world.calls.unlock[b] + 1

C10_Tick ==
    \A k \in Lockers :
        LET b == listeners[k].locked
            locks == world'.calls.lock[b] - world.calls.lock[b]
            unlocks == world'.calls.unlock[b] - world.calls.unlock[b]
        IN /\ locks \in {0, 1} /\ unlocks \in {0, 1}
           /\ locks = 1 <=> (~world.joints[b].locked /\ world'.joints[b].locked)
           /\ unlocks = 1 <=> (world.joints[b].locked /\ ~world'.joints[b].locked)
           /\ locks = 1 => world'.should[k] = 1 /\ world'.joints[b].vel = 0
           /\ unlocks = 1 => world'.should[k] = 0
           /\ world.joints[b].locked => locks = 0
           /\ ~world.joints[b].locked => unlocks = 0

C10_OnTransitionsOnly == []C10_Counts /\ [][C10_Tick]_vars

\* C10 witness: a World.step that began and ended with the target locked
\* and should-be-locked, the target having been locked, unlocked and locked
\* again before: two lock() calls in all.
C10_Witness ==
    /\ Stepped
    /\ \E k \in Lockers :
         LET b == listeners[k].locked
         IN /\ pre.joints[b].locked /\ world.joints[b].locked
            /\ pre.should[k] = 1 /\ world.should[k] = 1
            /\ world.calls.lock[b] = 2 /\ world.calls.unlock[b] = 1

\* ---------------------------------------------------- claims of JointSpec
\* the joint called, before and after the last call
Before == pre.joints[am.n]
After == world.joints[am.n]
\* an unlocked Joint.step was the last call
UnlockedStep == am.op = "step" /\ ~Before.locked
\* the position that step integrated, before the limit tests
Integrated == Before.q + Scaled(Before.vel, am.dt)
OverMax == JointMaxLimit[am.n].set /\ Integrated > JointMaxLimit[am.n].v
UnderMin == JointMinLimit[am.n].set /\ Integrated < JointMinLimit[am.n].v

\* C11: add_force(f) and step(dt) on a locked joint leave q, vel and locked
\* as they were and step returns direction 0; unlock() clears locked and
\* leaves q and vel as they were.
C11_LockedFrame ==
    /\ (am.op \in {"add_force", "step"} /\ Before.locked) =>
           /\ After.q = Before.q /\ After.vel = Before.vel /\ After.locked
           /\ am.op = "step" => am.out = <<Before.q, Before.vel, TRUE, 0>>
    /\ am.op = "unlock" =>
           /\ After.q = Before.q /\ After.vel = Before.vel /\ ~After.locked

\* C11 witness: a force was added to a joint that was locked away from its
\* start position.
C11_Witness ==
    /\ am.op = "add_force" /\ am.f # 0
    /\ Before.locked /\ Before.q # 0

\* C12: an unlocked step in a zone of positive damping that crosses no limit
\* leaves a velocity of the same sign, of magnitude at most the one before:
\* its square is max(vel^2 - |damping * vel * dt|, 0), rounded to the unit.
C12_FrictionSlows ==
    (/\ UnlockedStep
     /\ JointDampings[am.n][am.state + 1] > 0
     /\ ~OverMax /\ ~UnderMin) =>
        LET damping == JointDampings[am.n][am.state + 1]
            sqr == Max(Before.vel * Before.vel
                       - Abs(damping * Before.vel * am.dt), 0)
        IN /\ Abs(After.vel) <= Abs(Before.vel)
           /\ Before.vel >= 0 => After.vel >= 0
           /\ Before.vel <= 0 => After.vel <= 0
           /\ After.vel * After.vel <= sqr
           /\ sqr < (Abs(After.vel) + 1) * (Abs(After.vel) + 1)

\* C12 witness: a joint moving backwards was slowed, without stopping or
\* reaching a limit.
C12_Witness ==
    /\ UnlockedStep /\ ~OverMax /\ ~UnderMin
    /\ Before.vel < 0 /\ After.vel < 0 /\ After.vel > Before.vel

\* C13: get_state(q, [s0..s(n-1)]) is 0 for q < s0, k for s(k-1) <= q < s(k)
\* and n for q >= s(n-1); q on the threshold s(k-1) is in zone k.
C13_ZoneLookup ==
    am.op = "get_state" =>
        LET n == Len(am.states)
        IN /\ am.x < am.states[1] => am.ret = 0
           /\ \A k \in 1..(n - 1) :
                (am.states[k] <= am.x /\ am.x < am.states[k + 1]) => am.ret = k
           /\ am.x >= am.states[n] => am.ret = n
           /\ \A k \in 1..n : am.x = am.states[k] => am.ret = k

\* C13 witness: get_state was asked for a position on the middle threshold
\* of three.
C13_Witness ==
    /\ am.op = "get_state" /\ Len(am.states) = 3
    /\ am.x = am.states[2] /\ am.ret = 2

\* the number of thresholds below x, and of those at or below x
Below(x, states) == Cardinality({i \in DOMAIN states : states[i] < x})
AtOrBelow(x, states) == Cardinality({i \in DOMAIN states : states[i] <= x})

\* C16 as stated: the zone Joint.step looks the damping up in, and every
\* get_state, is the number of thresholds strictly less than q.
C16_Original ==
    /\ UnlockedStep => am.state = Below(After.q, JointStates[am.n])
    /\ am.op = "get_state" => am.ret = Below(am.x, am.states)

\* C16: the zone Joint.step looks the damping up in, and every get_state, is
\* the number of thresholds less than or equal to q: 0 below all thresholds,
\* N at or above all.
C16_ThresholdsAtOrBelow ==
    /\ UnlockedStep =>
         /\ am.state = AtOrBelow(After.q, JointStates[am.n])
         /\ After.q < JointStates[am.n][1] => am.state = 0
         /\ After.q >= JointStates[am.n][Len(JointStates[am.n])] =>
                am.state = Len(JointStates[am.n])
    /\ am.op = "get_state" => am.ret = AtOrBelow(am.x, am.states)

\* C16 witness: a step left the joint on its first threshold and used the
\* zone above it.
C16_Witness ==
    /\ UnlockedStep
    /\ After.q = JointStates[am.n][1]
    /\ Before.q # After.q
    /\ am.state = 1

\* C17: after an unlocked step of a joint with both limits set q is within
\* the limits; if the integrated position was beyond a limit q is that limit
\* and the velocity has turned (or is zero), else the velocity has kept its
\* sign (or is zero).
C17_WithinLimits ==
    (/\ UnlockedStep
     /\ JointMinLimit[am.n].set /\ JointMaxLimit[am.n].set
     /\ JointMinLimit[am.n].v <= JointMaxLimit[am.n].v) =>
        /\ JointMinLimit[am.n].v <= After.q
        /\ After.q <= JointMaxLimit[am.n].v
        /\ OverMax => After.q = JointMaxLimit[am.n].v
        /\ UnderMin => After.q = JointMinLimit[am.n].v
        /\ (OverMax \/ UnderMin) =>
             /\ Before.vel > 0 => After.vel <= 0
             /\ Before.vel < 0 => After.vel >= 0
        /\ ~(OverMax \/ UnderMin) =>
             /\ After.q = Integrated
             /\ Before.vel > 0 => After.vel >= 0
             /\ Before.vel < 0 => After.vel <= 0

\* C17 witness: a step ran into max_limit and the joint came back from it.
C17_Witness ==
    /\ UnlockedStep /\ OverMax
    /\ After.q = JointMaxLimit[am.n].v
    /\ Before.vel > 0 /\ After.vel < 0

\* --------------------------------------------------- further claims of Spec
\* C14 as stated: every ForceController.step made with a remaining duration
\* above 0 returns the armed force; Controller.step makes the call exactly
\* when force mode is active and the remaining duration is above 0.
C14_Original ==
    \A n \in JointIds :
        (/\ Stepped
         /\ world.last[n].before.force_control
         /\ world.last[n].before.force_controller.time > 0) =>
            world.last[n].desired = world.last[n].before.force_controller.force

\* C15 as stated: as long as no sensor reading was off, is_done() of every
\* PositionController is true exactly when no goal is set, or the joint's
\* position is within 0.5 of the goal and its speed below 0.01, or the joint
\* is locked.
C15_Original ==
    world.calls.noisy = 0 =>
        \A n \in JointIds :
            LET p == world.controllers[n].position_controller
                j == world.joints[n]
            IN PositionController_is_done(p, j) <=>
                   \/ ~p.goal_pos.set
                   \/ Abs(j.q - p.goal_pos.v) < S \div 2
                        /\ Abs(j.vel) < S \div 100
                   \/ j.locked

\* C18: in run_action's wait for a goal, a World.step that begins and ends
\* with the joint locked and begins with its Controller in position mode and
\* not in force mode leaves the Controller done, position mode off, zero
\* force applied and the position as it was; the wait starts with the
\* Controller not done and makes no World.step once it is done, so it makes
\* exactly one.
C18_Started ==
    (am.op = "run_action" /\ am.pc = "for" /\ am'.pc = "while") =>
        /\ world'.controllers[am.j].position_control
        /\ ~Controller_is_done(world'.controllers[am.j])
        /\ world'.joints = world.joints

C18_Tick ==
    (/\ am.op = "run_action" /\ am.pc = "while"
     /\ world.joints[am.j].locked
     /\ world.controllers[am.j].position_control
     /\ ~world.controllers[am.j].force_control
     /\ world'.calls.step # world.calls.step
     /\ world'.joints[am.j].locked) =>
        /\ Controller_is_done(world'.controllers[am.j])
        /\ ~world'.controllers[am.j].position_control
        /\ world'.last[am.j].desired = 0
        /\ world'.last[am.j].added = <<0>>
        /\ ~world'.last[am.j].pid
        /\ world'.joints[am.j].q = world.joints[am.j].q
        /\ world'.joints[am.j].vel = 0

C18_Ended ==
    (/\ am.op = "run_action" /\ am.pc = "while"
     /\ Controller_is_done(world.controllers[am.j])) =>
        /\ world' = world
        /\ am'.pc = "for" /\ am'.j = am.j + 1

C18_LockedGoalOneStep == [][C18_Started /\ C18_Tick /\ C18_Ended]_vars

\* C18 witness: run_action's wait for its second goal has made its first
\* World.step, the joint was locked before and after it, and the Controller
\* is done.
C18_Witness ==
    /\ am.op = "run_action" /\ am.pc = "while" /\ am.j = 2
    /\ pre.joints[2].locked /\ world.joints[2].locked
    /\ world.last[2].before.position_control
    /\ ~world.last[2].before.force_control
    /\ world.last[2].before.position_controller.goal_pos.v = am.pos[2]
    /\ world.last[2].added = <<0>>
    /\ Controller_is_done(world.controllers[2])

\* C19: a locked joint has velocity 0; a joint that a World.step has unlocked
\* was at rest when its Controller next added a force, and has no velocity
\* but the one that force gave it.
C19_LockedAtRest ==
    \A n \in JointIds :
        /\ world.joints[n].locked => world.joints[n].vel = 0
        /\ (Stepped /\ pre.joints[n].locked /\ ~world.joints[n].locked) =>
             /\ world.last[n].joint.vel = 0
             /\ world.joints[n].vel =
                    IF world.last[n].joint.locked THEN 0
                    ELSE world.last[n].added[1]

\* C19 witness: a joint that was moving when the World.step began is locked.
C19_Witness ==
    \E n \in JointIds :
        /\ Stepped
        /\ ~pre.joints[n].locked /\ pre.joints[n].vel # 0
        /\ world.sample[n][2] # 0
        /\ world.joints[n].locked

\* check_state has returned and the world has not been stepped since
JustReturned == Returned /\ world.time = am.t1 /\ tau * ProbeTicks = ProbeTime

\* C20: when check_state(j) returns (10 * tau = 1) controller j is still in
\* force mode and not done; a World.step made before any other force
\* command leaves force mode, applies zero force without evaluating the
\* PositionController, and the controller is done unless position mode is
\* active.
C20_OnReturn ==
    JustReturned =>
        /\ world.controllers[am.j].force_control
        /\ ~Controller_is_done(world.controllers[am.j])

C20_NextStep ==
    (/\ JustReturned
     /\ ForceController_is_done(world.controllers[am.j].force_controller)
     /\ world'.calls.step # world.calls.step) =>
        /\ ~world'.controllers[am.j].force_control
        /\ world'.last[am.j].desired = 0
        /\ world'.last[am.j].added = <<0>>
        /\ ~world'.last[am.j].pid
        /\ world'.controllers[am.j].position_control
               = world.controllers[am.j].position_control
        /\ ~world.controllers[am.j].position_control =>
               Controller_is_done(world'.controllers[am.j])

C20_ForceModeOutlastsProbe == []C20_OnReturn /\ [][C20_NextStep]_vars

\* C20 witness: the first World.step after a check_state that was the run's
\* first command (its controller idle at the call) has been made, and the
\* controller is done.
C20_Witness ==
    /\ Returned /\ tau * ProbeTicks = ProbeTime
    /\ world.calls.cmds = 1
    /\ world.time = am.t1 + tau
    /\ world.last[am.j].before.force_control
    /\ world.last[am.j].added = <<0>>
    /\ Controller_is_done(world.controllers[am.j])

====
